---- MODULE Spec2Model ----
(***************************************************************************)
(* Model of the rate-limit override management of the OFT program          *)
(* (programs/oft/src/instructions/set_ratelimit_override.rs) and of the    *)
(* amount conversion helpers of OFTStore (programs/oft/src/state/oft.rs).  *)
(*                                                                         *)
(* oft_store is the account data as persisted; ctx_store is the            *)
(* deserialized copy ctx.accounts.oft_store the handler mutates.  The      *)
(* copy is written back to the account only when the handler returns Ok.   *)
(***************************************************************************)
EXTENDS Integers, Sequences, FiniteSets, TLC

\* ---------------------------------------------------------------- bounds
NumKeys == 2        \* distinct Pubkey values in rate_limit_override
NumGuids == 1       \* distinct guid values
MaxCapAddr == 2     \* largest max_rate_limit_overrides explored
MaxCapGuid == 1     \* largest max_rate_limit_override_guid_count explored
MaxBatch == 2       \* longest actions / keys vector of a request
WordBits == 4       \* width of the scaled-down u64 of the converter

Pubkeys == 1..NumKeys

\* the stored admin and one other signer: has_one only compares for equality
AdminKey == 1
OtherKey == 2
Signers == {AdminKey, OtherKey}
Guids == 1..NumGuids
U64Modulus == 2 ^ WordBits
U64Max == U64Modulus - 1

RateLimitOverrideAction == {"Add", "Remove"}

SeqsUpTo(S, n) == UNION {[1..k -> S] : k \in 0..n}

Min(a, b) == IF a < b THEN a ELSE b

VARIABLES
    oft_store,   \* persisted OFTStore account
    ctx_store,   \* ctx.accounts.oft_store: in-memory copy of the running request
    params,      \* the request: signer, target list, actions, keys
    pc,          \* position of the request: idle, entry, loop, done
    idx,         \* number of (action, key) pairs the loop has consumed
    result,      \* "none" while running, then "Ok" or the OFTError
    events,      \* emit! calls of the running request, in order
    conv         \* last call of a conversion helper and its outcome

vars == <<oft_store, ctx_store, params, pc, idx, result, events, conv>>

NoParams == [signer |-> 0, target |-> "none", actions |-> <<>>, keys |-> <<>>]
NoConv == [op |-> "none", arg |-> 0, panicked |-> FALSE, value |-> 0]

\* ------------------------------------------------------- OFTStore helpers

\* Vec::contains
Contains(list, key) == \E p \in 1..Len(list) : list[p] = key

\* mutant of Position: an absent key falls back to the first entry
PositionOrFirst(list, key) ==
    IF Contains(list, key)
    THEN CHOOSE p \in 1..Len(list) :
            /\ list[p] = key
            /\ \A q \in 1..(p - 1) : list[q] # key
    ELSE IF Len(list) > 0 THEN 1 ELSE 0

\* iter().position(|x| x == key): first matching index (1-based), 0 for None
Position(list, key) ==
    IF Contains(list, key)
    THEN CHOOSE p \in 1..Len(list) :
            /\ list[p] = key
            /\ \A q \in 1..(p - 1) : list[q] # key
    ELSE 0

\* mutant of SwapRemove: the last element is copied but the list keeps its length
SwapRemoveNoTruncate(list, p) == [list EXCEPT ![p] = list[Len(list)]]

\* mutant of SwapRemove: the list is truncated without the swap
SwapRemoveNoSwap(list, p) == SubSeq(list, 1, Len(list) - 1)

\* Vec::swap_remove: the last element takes the freed position
SwapRemove(list, p) ==
    LET last == list[Len(list)]
        moved == [list EXCEPT ![p] = last]
    IN  SubSeq(moved, 1, Len(list) - 1)

\* mutant of is_rate_limit_override: only the first entry is compared
is_rate_limit_overrideFirstOnly(store, account) ==
    /\ Len(store.rate_limit_override) > 0
    /\ store.rate_limit_override[1] = account

is_rate_limit_override(store, account) == Contains(store.rate_limit_override, account)

is_rate_limit_override_guid(store, guid) == Contains(store.rate_limit_override_guids, guid)

Members(list) == {list[p] : p \in 1..Len(list)}

\* ------------------------------------------------------ amount conversion

\* mutant of ld2sd: the quotient is rounded up
ld2sdRoundUp(store, amount_ld) ==
    (amount_ld + store.ld2sd_rate - 1) \div store.ld2sd_rate

\* amount_ld / self.ld2sd_rate
ld2sd(store, amount_ld) == amount_ld \div store.ld2sd_rate

\* mutant of sd2ld: the rate is applied twice
sd2ldTwice(store, amount_sd) ==
    LET product == amount_sd * store.ld2sd_rate * store.ld2sd_rate
    IN  IF product <= U64Max
        THEN {[panicked |-> FALSE, value |-> product]}
        ELSE {[panicked |-> TRUE, value |-> 0],
              [panicked |-> FALSE, value |-> product % U64Modulus]}

\* amount_sd * self.ld2sd_rate on u64: the product fits, or the build decides
\* (overflow-checks on: panic; off: the product wraps modulo 2^64)
sd2ld(store, amount_sd) ==
    LET product == amount_sd * store.ld2sd_rate
    IN  IF product <= U64Max
        THEN {[panicked |-> FALSE, value |-> product]}
        ELSE {[panicked |-> TRUE, value |-> 0],
              [panicked |-> FALSE, value |-> product % U64Modulus]}

\* mutant of remove_dust: the quotient is subtracted instead of the remainder
remove_dustQuotient(store, amount_ld) == amount_ld - (amount_ld \div store.ld2sd_rate)

\* amount_ld - amount_ld % self.ld2sd_rate
remove_dust(store, amount_ld) == amount_ld - (amount_ld % store.ld2sd_rate)

\* ------------------------------------------------------------- one step

StepFail(store, err) == [store |-> store, err |-> err, emitted |-> <<>>]

StepOk(store, ev) == [store |-> store, err |-> "Ok", emitted |-> <<ev>>]

\* mutant of AddAddress: capacity compared with <= instead of <
AddAddressOffByOne(store, address) ==
    IF ~(Len(store.rate_limit_override) <= store.max_rate_limit_overrides)
    THEN StepFail(store, "RateLimitOverrideListFull")
    ELSE IF Contains(store.rate_limit_override, address)
    THEN StepFail(store, "AlreadyInOverrideList")
    ELSE StepOk([store EXCEPT !.rate_limit_override = Append(@, address)],
                [name |-> "RateLimitOverrideUpdated", key |-> address, action |-> "Add"])

\* mutant of AddAddress: the duplicate check is missing
AddAddressNoDupCheck(store, address) ==
    IF ~(Len(store.rate_limit_override) < store.max_rate_limit_overrides)
    THEN StepFail(store, "RateLimitOverrideListFull")
    ELSE StepOk([store EXCEPT !.rate_limit_override = Append(@, address)],
                [name |-> "RateLimitOverrideUpdated", key |-> address, action |-> "Add"])

AddAddress(store, address) ==
    IF ~(Len(store.rate_limit_override) < store.max_rate_limit_overrides)
    THEN StepFail(store, "RateLimitOverrideListFull")
    ELSE IF Contains(store.rate_limit_override, address)
    THEN StepFail(store, "AlreadyInOverrideList")
    ELSE StepOk([store EXCEPT !.rate_limit_override = Append(@, address)],
                [name |-> "RateLimitOverrideUpdated", key |-> address, action |-> "Add"])

\* mutant of RemoveAddress: the event carries the Add action
RemoveAddressEmitsAdd(store, address) ==
    LET index == Position(store.rate_limit_override, address)
    IN  IF index = 0
        THEN StepFail(store, "NotInOverrideList")
        ELSE StepOk([store EXCEPT !.rate_limit_override = SwapRemove(@, index)],
                    [name |-> "RateLimitOverrideUpdated", key |-> address, action |-> "Add"])

RemoveAddress(store, address) ==
    LET index == Position(store.rate_limit_override, address)
    IN  IF index = 0
        THEN StepFail(store, "NotInOverrideList")
        ELSE StepOk([store EXCEPT !.rate_limit_override = SwapRemove(@, index)],
                    [name |-> "RateLimitOverrideUpdated", key |-> address, action |-> "Remove"])

process_address_action(store, action, address) ==
    IF action = "Add" THEN AddAddress(store, address) ELSE RemoveAddress(store, address)

\* mutant of AddGuid: capacity compared with <= instead of <
AddGuidOffByOne(store, guid) ==
    IF ~(Len(store.rate_limit_override_guids) <= store.max_rate_limit_override_guid_count)
    THEN StepFail(store, "RateLimitOverrideListFull")
    ELSE IF Contains(store.rate_limit_override_guids, guid)
    THEN StepFail(store, "AlreadyInOverrideList")
    ELSE StepOk([store EXCEPT !.rate_limit_override_guids = Append(@, guid)],
                [name |-> "RateLimitOverrideGuidUpdated", key |-> guid, action |-> "Add"])

\* mutant of AddGuid: the guid is pushed onto the address list
AddGuidWrongList(store, guid) ==
    IF ~(Len(store.rate_limit_override_guids) < store.max_rate_limit_override_guid_count)
    THEN StepFail(store, "RateLimitOverrideListFull")
    ELSE IF Contains(store.rate_limit_override_guids, guid)
    THEN StepFail(store, "AlreadyInOverrideList")
    ELSE StepOk([store EXCEPT !.rate_limit_override = Append(@, guid)],
                [name |-> "RateLimitOverrideGuidUpdated", key |-> guid, action |-> "Add"])

AddGuid(store, guid) ==
    IF ~(Len(store.rate_limit_override_guids) < store.max_rate_limit_override_guid_count)
    THEN StepFail(store, "RateLimitOverrideListFull")
    ELSE IF Contains(store.rate_limit_override_guids, guid)
    THEN StepFail(store, "AlreadyInOverrideList")
    ELSE StepOk([store EXCEPT !.rate_limit_override_guids = Append(@, guid)],
                [name |-> "RateLimitOverrideGuidUpdated", key |-> guid, action |-> "Add"])

RemoveGuid(store, guid) ==
    LET index == Position(store.rate_limit_override_guids, guid)
    IN  IF index = 0
        THEN StepFail(store, "NotInOverrideList")
        ELSE StepOk([store EXCEPT !.rate_limit_override_guids = SwapRemove(@, index)],
                    [name |-> "RateLimitOverrideGuidUpdated", key |-> guid, action |-> "Remove"])

process_guid_action(store, action, guid) ==
    IF action = "Add" THEN AddGuid(store, guid) ELSE RemoveGuid(store, guid)

\* ---------------------------------------------------------- whole batch

process_action(store, target, action, key) ==
    IF target = "guid" THEN process_guid_action(store, action, key)
    ELSE process_address_action(store, action, key)

\* the zip loop of apply_address / apply_guid from pair i on: the pairs are
\* applied in order and the first Err ends the loop
RECURSIVE RunFrom(_, _, _, _, _)
RunFrom(store, target, actions, keys, i) ==
    IF i > Min(Len(actions), Len(keys))
    THEN [store |-> store, err |-> "Ok", applied |-> i - 1, emitted |-> <<>>]
    ELSE LET r == process_action(store, target, actions[i], keys[i])
         IN  IF r.err # "Ok"
             THEN [store |-> r.store, err |-> r.err, applied |-> i - 1, emitted |-> <<>>]
             ELSE LET rest == RunFrom(r.store, target, actions, keys, i + 1)
                  IN  [rest EXCEPT !.emitted = r.emitted \o @]


\* ------------------------------------------------- account constraints

\* mutant of HasOneAdmin: the constraint is missing
HasOneAdminMissing(store, signer) == TRUE

\* has_one = admin @ OFTError::Unauthorized
HasOneAdmin(store, signer) == store.admin = signer

\* mutant of LengthsMatch: the shape check is missing
LengthsMatchMissing(actions, keys) == TRUE

\* params.actions.len() == params.addresses.len()
LengthsMatch(actions, keys) == Len(actions) = Len(keys)

\* apply_address / apply_guid as a function of the store and the request
apply_batch(store, target, actions, keys) ==
    IF LengthsMatch(actions, keys)
    THEN RunFrom(store, target, actions, keys, 1)
    ELSE [store |-> store, err |-> "ManageRateLimitOverrideParamsLengthMismatch",
          applied |-> 0, emitted |-> <<>>]

\* mutant of AccountAfter: the in-memory copy is written back on failure too
AccountAfterAlways(res, inMemory, persisted) == inMemory

\* #[account(mut)]: the in-memory copy is serialized back into the account
\* when the instruction returns Ok; an Err leaves the account data as it was.
AccountAfter(res, inMemory, persisted) == IF res = "Ok" THEN inMemory ELSE persisted

\* ------------------------------------------------------------ state

Init ==
    /\ oft_store \in [admin : {AdminKey},
                      ld2sd_rate : {2},
                      rate_limit_override : {<<>>},
                      max_rate_limit_overrides : 0..MaxCapAddr,
                      rate_limit_override_guids : {<<>>},
                      max_rate_limit_override_guid_count : 0..MaxCapGuid]
    /\ ctx_store = oft_store
    /\ params = NoParams
    /\ pc = "idle"
    /\ idx = 0
    /\ result = "none"
    /\ events = <<>>
    /\ conv = NoConv

\* A request arrives: the accounts struct is validated (has_one) and the
\* account is deserialized into ctx.
Submit(signer, target, actions, keys) ==
    /\ pc = "idle"
    /\ params' = [signer |-> signer, target |-> target, actions |-> actions, keys |-> keys]
    /\ idx' = 0
    /\ events' = <<>>
    /\ ctx_store' = oft_store
    /\ IF HasOneAdmin(oft_store, signer)
       THEN /\ pc' = "entry"
            /\ result' = "none"
       ELSE /\ pc' = "done"
            /\ result' = "Unauthorized"
    /\ UNCHANGED <<oft_store, conv>>

SubmitAddress ==
    \E signer \in Signers, actions \in SeqsUpTo(RateLimitOverrideAction, MaxBatch),
       keys \in SeqsUpTo(Pubkeys, MaxBatch) :
        Submit(signer, "address", actions, keys)

SubmitGuid ==
    \E signer \in Signers, actions \in SeqsUpTo(RateLimitOverrideAction, MaxBatch),
       keys \in SeqsUpTo(Guids, MaxBatch) :
        Submit(signer, "guid", actions, keys)

\* require!(params.actions.len() == params.addresses.len(), ...)
CheckLength ==
    /\ pc = "entry"
    /\ IF LengthsMatch(params.actions, params.keys)
       THEN /\ pc' = "loop"
            /\ result' = "none"
            /\ oft_store' = oft_store
       ELSE /\ pc' = "done"
            /\ result' = "ManageRateLimitOverrideParamsLengthMismatch"
            /\ oft_store' = AccountAfter(result', ctx_store, oft_store)
    /\ UNCHANGED <<ctx_store, params, idx, events, conv>>

\* one iteration of the zip loop
\* mutant of LoopStep: a successful step is written to the account at once
LoopStepWriteThrough(r) ==
    /\ ctx_store' = r.store
    /\ events' = events \o r.emitted
    /\ IF r.err = "Ok"
       THEN /\ idx' = idx + 1
            /\ pc' = "loop"
            /\ result' = "none"
            /\ oft_store' = r.store
       ELSE /\ idx' = idx
            /\ pc' = "done"
            /\ result' = r.err
            /\ oft_store' = AccountAfter(r.err, r.store, oft_store)
    /\ UNCHANGED <<params, conv>>

\* mutant of LoopStep: the mutation of a successful step is dropped, so every
\* pair is evaluated against the set the request started from
LoopStepStale(r) ==
    /\ ctx_store' = ctx_store
    /\ events' = events \o r.emitted
    /\ IF r.err = "Ok"
       THEN /\ idx' = idx + 1
            /\ pc' = "loop"
            /\ result' = "none"
            /\ oft_store' = oft_store
       ELSE /\ idx' = idx
            /\ pc' = "done"
            /\ result' = r.err
            /\ oft_store' = AccountAfter(r.err, r.store, oft_store)
    /\ UNCHANGED <<params, conv>>

LoopStep(r) ==
    /\ ctx_store' = r.store
    /\ events' = events \o r.emitted
    /\ IF r.err = "Ok"
       THEN /\ idx' = idx + 1
            /\ pc' = "loop"
            /\ result' = "none"
            /\ oft_store' = oft_store
       ELSE /\ idx' = idx
            /\ pc' = "done"
            /\ result' = r.err
            /\ oft_store' = AccountAfter(r.err, r.store, oft_store)
    /\ UNCHANGED <<params, conv>>

InLoop ==
    /\ pc = "loop"
    /\ idx < Min(Len(params.actions), Len(params.keys))

StepAddress ==
    /\ InLoop
    /\ params.target = "address"
    /\ LoopStep(process_address_action(ctx_store, params.actions[idx + 1], params.keys[idx + 1]))

StepGuid ==
    /\ InLoop
    /\ params.target = "guid"
    /\ LoopStep(process_guid_action(ctx_store, params.actions[idx + 1], params.keys[idx + 1]))

\* the loop is exhausted: Ok(()) and the account is written back
Finish ==
    /\ pc = "loop"
    /\ idx = Min(Len(params.actions), Len(params.keys))
    /\ pc' = "done"
    /\ result' = "Ok"
    /\ oft_store' = AccountAfter("Ok", ctx_store, oft_store)
    /\ UNCHANGED <<ctx_store, params, idx, events, conv>>

\* the request is over; the next one starts from the persisted account
Return ==
    /\ pc = "done"
    /\ pc' = "idle"
    /\ params' = NoParams
    /\ idx' = 0
    /\ result' = "none"
    /\ events' = <<>>
    /\ ctx_store' = oft_store
    /\ UNCHANGED <<oft_store, conv>>

Next ==
    \/ SubmitAddress
    \/ SubmitGuid
    \/ CheckLength
    \/ StepAddress
    \/ StepGuid
    \/ Finish
    \/ Return

Spec == Init /\ [][Next]_vars

\* ------------------------------------------------ conversion helper calls

InitConv ==
    /\ oft_store \in [admin : {AdminKey},
                      ld2sd_rate : 1..U64Max,
                      rate_limit_override : {<<>>},
                      max_rate_limit_overrides : {MaxCapAddr},
                      rate_limit_override_guids : {<<>>},
                      max_rate_limit_override_guid_count : {MaxCapGuid}]
    /\ ctx_store = oft_store
    /\ params = NoParams
    /\ pc = "idle"
    /\ idx = 0
    /\ result = "none"
    /\ events = <<>>
    /\ conv = NoConv

CallLd2sd ==
    \E amount_ld \in 0..U64Max :
        /\ conv' = [op |-> "ld2sd", arg |-> amount_ld, panicked |-> FALSE,
                    value |-> ld2sd(oft_store, amount_ld)]
        /\ UNCHANGED <<oft_store, ctx_store, params, pc, idx, result, events>>

CallSd2ld ==
    \E amount_sd \in 0..U64Max :
        \E out \in sd2ld(oft_store, amount_sd) :
            /\ conv' = [op |-> "sd2ld", arg |-> amount_sd, panicked |-> out.panicked,
                        value |-> out.value]
            /\ UNCHANGED <<oft_store, ctx_store, params, pc, idx, result, events>>

CallRemoveDust ==
    \E amount_ld \in 0..U64Max :
        /\ conv' = [op |-> "remove_dust", arg |-> amount_ld, panicked |-> FALSE,
                    value |-> remove_dust(oft_store, amount_ld)]
        /\ UNCHANGED <<oft_store, ctx_store, params, pc, idx, result, events>>

\* sd2ld(ld2sd(amount_ld)): the amount that arrives after a round trip
CallRoundTrip ==
    \E amount_ld \in 0..U64Max :
        \E out \in sd2ld(oft_store, ld2sd(oft_store, amount_ld)) :
            /\ conv' = [op |-> "round_trip", arg |-> amount_ld, panicked |-> out.panicked,
                        value |-> out.value]
            /\ UNCHANGED <<oft_store, ctx_store, params, pc, idx, result, events>>

NextConv ==
    \/ CallLd2sd
    \/ CallSd2ld
    \/ CallRemoveDust
    \/ CallRoundTrip

ConvSpec == InitConv /\ [][NextConv]_vars

\* ------------------------------------------------------------ properties

\* the list and the capacity the running request targets
TargetList(store) ==
    IF params.target = "guid" THEN store.rate_limit_override_guids
    ELSE store.rate_limit_override

TargetCap(store) ==
    IF params.target = "guid" THEN store.max_rate_limit_override_guid_count
    ELSE store.max_rate_limit_overrides

\* the pair the loop is about to process
AtStep(action) ==
    /\ pc = "loop"
    /\ idx < Len(params.actions)
    /\ idx < Len(params.keys)
    /\ params.actions[idx + 1] = action

CurKey == params.keys[idx + 1]

NoDup(list) == \A p, q \in 1..Len(list) : list[p] = list[q] => p = q

Failed == result \notin {"none", "Ok"}

\* C1: all-or-nothing batch.  No step of a request that does not end with Ok
\* changes the persisted account, so after a failed batch both override sets
\* are what they were before the request, also when earlier steps of the
\* batch had succeeded in memory.
C1_AllOrNothing ==
    [][(pc' # "idle" /\ result' # "Ok") => oft_store' = oft_store]_vars

\* [Add K1, Remove K2] with K2 absent: failed with NotInOverrideList after the
\* Add had been applied in memory, and K1 is not a member of the account's set
C1_Witness ==
    /\ pc = "done"
    /\ result = "NotInOverrideList"
    /\ params.actions = <<"Add", "Remove">>
    /\ idx = 1
    /\ Contains(TargetList(ctx_store), params.keys[1])
    /\ ~Contains(TargetList(oft_store), params.keys[1])

\* C2: capacity invariant.  Neither list, persisted or in memory, ever holds
\* more entries than its capacity field.
C2_Capacity ==
    /\ Len(oft_store.rate_limit_override) <= oft_store.max_rate_limit_overrides
    /\ Len(oft_store.rate_limit_override_guids) <= oft_store.max_rate_limit_override_guid_count
    /\ Len(ctx_store.rate_limit_override) <= ctx_store.max_rate_limit_overrides
    /\ Len(ctx_store.rate_limit_override_guids) <= ctx_store.max_rate_limit_override_guid_count

\* both lists filled to a non-zero capacity and a further Add rejected
C2_Witness ==
    /\ oft_store.max_rate_limit_overrides > 0
    /\ oft_store.max_rate_limit_override_guid_count > 0
    /\ Len(oft_store.rate_limit_override) = oft_store.max_rate_limit_overrides
    /\ Len(oft_store.rate_limit_override_guids) = oft_store.max_rate_limit_override_guid_count
    /\ result = "RateLimitOverrideListFull"

\* C3: no duplicates.  Neither list, persisted or in memory, holds the same
\* key at two positions.
C3_NoDuplicates ==
    /\ NoDup(oft_store.rate_limit_override)
    /\ NoDup(oft_store.rate_limit_override_guids)
    /\ NoDup(ctx_store.rate_limit_override)
    /\ NoDup(ctx_store.rate_limit_override_guids)

\* a key of a two-entry list was removed and added again by one batch, and
\* the list holds two entries again
C3_Witness ==
    /\ pc = "loop"
    /\ idx = 2
    /\ params.actions = <<"Remove", "Add">>
    /\ params.keys[1] = params.keys[2]
    /\ Len(TargetList(oft_store)) = 2
    /\ Len(TargetList(ctx_store)) = 2

\* C4: authorization.  A request whose signer is not the stored admin is
\* over with Unauthorized whatever its contents, has emitted nothing, has
\* changed nothing in memory, and no step of it changes the account.
C4_Unauthorized ==
    /\ [](params.target # "none" /\ params.signer # oft_store.admin
            => /\ pc = "done"
               /\ result = "Unauthorized"
               /\ events = <<>>
               /\ idx = 0
               /\ ctx_store = oft_store)
    /\ [][(params'.target # "none" /\ params'.signer # oft_store.admin)
            => oft_store' = oft_store]_vars

\* a non-admin request with arrays of different lengths got Unauthorized
C4_Witness ==
    /\ pc = "done"
    /\ result = "Unauthorized"
    /\ params.signer # oft_store.admin
    /\ Len(params.actions) # Len(params.keys)
    /\ Len(params.actions) > 0
    /\ Len(params.keys) > 0

\* C5: shape check.  An admin request whose arrays differ in length never
\* enters the loop: it is over with LengthMismatch, no pair was processed,
\* nothing was emitted, and neither the in-memory copy nor the account changed.
C5_LengthMismatch ==
    /\ []((pc \in {"loop", "done"} /\ params.signer = oft_store.admin
           /\ Len(params.actions) # Len(params.keys))
            => /\ pc = "done"
               /\ result = "ManageRateLimitOverrideParamsLengthMismatch"
               /\ events = <<>>
               /\ idx = 0
               /\ ctx_store = oft_store)
    /\ [][Len(params'.actions) # Len(params'.keys) => oft_store' = oft_store]_vars

\* a mismatched admin request whose first pair, had it been applied, would
\* have succeeded
C5_Witness ==
    /\ pc = "done"
    /\ result = "ManageRateLimitOverrideParamsLengthMismatch"
    /\ params.signer = oft_store.admin
    /\ Len(params.actions) > 0
    /\ Len(params.keys) > 0
    /\ params.actions[1] = "Add"
    /\ Len(TargetList(oft_store)) < TargetCap(oft_store)
    /\ ~Contains(TargetList(oft_store), params.keys[1])

\* C6 as stated: an Add of a key that is already a member fails with
\* AlreadyInOverrideList and leaves the set unchanged, at every fill level.
C6_Original ==
    [][(AtStep("Add") /\ Contains(TargetList(ctx_store), CurKey))
        => /\ result' = "AlreadyInOverrideList"
           /\ ctx_store' = ctx_store
           /\ oft_store' = oft_store]_vars

\* C6 amended: an Add of a key that is already a member fails and leaves the
\* set unchanged and emits nothing; the error is AlreadyInOverrideList when
\* the set is below capacity and RateLimitOverrideListFull when the set is at
\* capacity (the capacity check comes first).
C6_DuplicateAdd ==
    [][(AtStep("Add") /\ Contains(TargetList(ctx_store), CurKey))
        => /\ pc' = "done"
           /\ result' = (IF Len(TargetList(ctx_store)) < TargetCap(ctx_store)
                         THEN "AlreadyInOverrideList"
                         ELSE "RateLimitOverrideListFull")
           /\ ctx_store' = ctx_store
           /\ oft_store' = oft_store
           /\ events' = events]_vars

\* Add(K) followed by Add(K): the second failed with AlreadyInOverrideList
C6_Witness ==
    /\ pc = "done"
    /\ result = "AlreadyInOverrideList"
    /\ params.actions = <<"Add", "Add">>
    /\ params.keys[1] = params.keys[2]
    /\ idx = 1

\* C7: Add at capacity.  An Add applied to a set whose length equals its
\* capacity fails with RateLimitOverrideListFull for every key, member or
\* not, and every capacity, 0 included; nothing changes and nothing is emitted.
C7_AddAtCapacity ==
    [][(AtStep("Add") /\ Len(TargetList(ctx_store)) = TargetCap(ctx_store))
        => /\ pc' = "done"
           /\ result' = "RateLimitOverrideListFull"
           /\ ctx_store' = ctx_store
           /\ oft_store' = oft_store
           /\ events' = events]_vars

\* an Add of a new key rejected by a set filled to a non-zero capacity
C7_Witness ==
    /\ pc = "done"
    /\ result = "RateLimitOverrideListFull"
    /\ TargetCap(ctx_store) > 0
    /\ Len(TargetList(ctx_store)) = TargetCap(ctx_store)
    /\ ~Contains(TargetList(ctx_store), CurKey)

\* C8: Remove of a present key succeeds, the list is one entry shorter, the
\* key is no longer a member and every other member is still a member.
C8_RemovePresent ==
    [][(AtStep("Remove") /\ Contains(TargetList(ctx_store), CurKey))
        => /\ pc' = "loop"
           /\ idx' = idx + 1
           /\ result' = "none"
           /\ Len(TargetList(ctx_store)') = Len(TargetList(ctx_store)) - 1
           /\ ~Contains(TargetList(ctx_store)', CurKey)
           /\ Members(TargetList(ctx_store)') = Members(TargetList(ctx_store)) \ {CurKey}]_vars

\* the first of two entries was removed and the last one took its position
C8_Witness ==
    /\ pc = "loop"
    /\ idx = 1
    /\ params.actions[1] = "Remove"
    /\ Len(TargetList(oft_store)) = 2
    /\ TargetList(oft_store)[1] = params.keys[1]
    /\ TargetList(ctx_store) = <<TargetList(oft_store)[2]>>

\* C9: Remove of an absent key fails with NotInOverrideList, leaves the set
\* unchanged and emits nothing.
C9_RemoveAbsent ==
    [][(AtStep("Remove") /\ ~Contains(TargetList(ctx_store), CurKey))
        => /\ pc' = "done"
           /\ result' = "NotInOverrideList"
           /\ ctx_store' = ctx_store
           /\ oft_store' = oft_store
           /\ events' = events]_vars

\* a Remove of an absent key rejected by a non-empty set
C9_Witness ==
    /\ pc = "done"
    /\ result = "NotInOverrideList"
    /\ idx = 0
    /\ Len(TargetList(ctx_store)) > 0
    /\ ~Contains(TargetList(ctx_store), CurKey)

\* C10: sd2ld fails closed on overflow.  Whenever amount_sd * ld2sd_rate
\* exceeds the u64 maximum the call does not return a value.
C10_Sd2ldFailsClosed ==
    (conv.op = "sd2ld" /\ conv.arg * oft_store.ld2sd_rate > U64Max) => conv.panicked

\* C11: round-trip law.  For every local amount and every rate > 0,
\* sd2ld(ld2sd(x)) returns remove_dust(x), and the multiplication does not
\* overflow.
C11_RoundTrip ==
    conv.op = "round_trip"
        => /\ ~conv.panicked
           /\ conv.value = conv.arg - (conv.arg % oft_store.ld2sd_rate)
           /\ conv.value = remove_dust(oft_store, conv.arg)
           /\ conv.value <= U64Max

\* a round trip of the largest amount that loses dust
C11_Witness ==
    /\ conv.op = "round_trip"
    /\ conv.arg = U64Max
    /\ oft_store.ld2sd_rate > 1
    /\ conv.value < conv.arg
    /\ conv.value > 0

\* C12: dust removal.  remove_dust(x) is a multiple of the rate, is at most
\* x, and is the largest such multiple.
C12_RemoveDust ==
    conv.op = "remove_dust"
        => /\ conv.value % oft_store.ld2sd_rate = 0
           /\ conv.value <= conv.arg
           /\ conv.value >= 0
           /\ conv.arg - conv.value < oft_store.ld2sd_rate

\* dust was removed from an amount that is not a multiple of the rate
C12_Witness ==
    /\ conv.op = "remove_dust"
    /\ conv.arg % oft_store.ld2sd_rate # 0
    /\ conv.value > 0
    /\ conv.value < conv.arg

\* C20: ld2sd is floor division.  ld2sd(a) is the largest q with
\* q * rate <= a, so it is at most a and stays in the u64 range.
C20_Ld2sdFloor ==
    conv.op = "ld2sd"
        => /\ ~conv.panicked
           /\ conv.value >= 0
           /\ conv.value * oft_store.ld2sd_rate <= conv.arg
           /\ (conv.value + 1) * oft_store.ld2sd_rate > conv.arg
           /\ conv.value <= conv.arg
           /\ conv.value <= U64Max

\* an amount that is not a multiple of the rate was converted, rounding down
C20_Witness ==
    /\ conv.op = "ld2sd"
    /\ oft_store.ld2sd_rate > 1
    /\ conv.arg % oft_store.ld2sd_rate # 0
    /\ conv.value > 1

\* the membership query of the list the running request targets
IsOverride(store, key) ==
    IF params.target = "guid" THEN is_rate_limit_override_guid(store, key)
    ELSE is_rate_limit_override(store, key)

TargetKeys == IF params.target = "guid" THEN Guids ELSE Pubkeys

\* the event type of the list the running request targets
TargetEvent ==
    IF params.target = "guid" THEN "RateLimitOverrideGuidUpdated"
    ELSE "RateLimitOverrideUpdated"

\* the keys of the pairs the loop has processed
ProcessedKeys == {params.keys[j] : j \in 1..idx}

OnlyAdds(n) == \A j \in 1..n : params.actions[j] = "Add"

\* C13: membership after adds.  After successful Adds from the empty set the
\* list holds as many entries as distinct keys were added, and the membership
\* query answers true for exactly the added keys, in memory and, once the
\* batch is over, in the account.
C13_MembershipAfterAdds ==
    /\ (pc = "loop" /\ TargetList(oft_store) = <<>> /\ OnlyAdds(idx))
        => /\ Len(TargetList(ctx_store)) = idx
           /\ Cardinality(ProcessedKeys) = idx
           /\ \A k \in TargetKeys : IsOverride(ctx_store, k) <=> k \in ProcessedKeys
    /\ (pc = "done" /\ result = "Ok" /\ OnlyAdds(Len(params.actions))
        /\ Len(TargetList(oft_store)) = Len(params.actions))
        => /\ Cardinality(ProcessedKeys) = Len(params.actions)
           /\ \A k \in TargetKeys : IsOverride(oft_store, k) <=> k \in ProcessedKeys

\* two distinct keys were added to the empty address list, up to a capacity
\* of two, and the account holds them
C13_Witness ==
    /\ pc = "done"
    /\ result = "Ok"
    /\ params.target = "address"
    /\ params.actions = <<"Add", "Add">>
    /\ oft_store.max_rate_limit_overrides = 2
    /\ Len(oft_store.rate_limit_override) = 2
    /\ is_rate_limit_override(oft_store, params.keys[1])
    /\ is_rate_limit_override(oft_store, params.keys[2])

\* C14: notifications.  The request has emitted one event per processed pair,
\* the i-th carrying the action and key of the i-th pair; a successful batch
\* of n pairs has emitted n, and a failing step emits none.
C14_Notifications ==
    /\ pc \in {"idle", "entry"} => events = <<>>
    /\ pc \in {"loop", "done"}
        => /\ Len(events) = idx
           /\ \A i \in 1..idx :
                events[i] = [name |-> TargetEvent, key |-> params.keys[i],
                             action |-> params.actions[i]]
    /\ (pc = "done" /\ result = "Ok") => Len(events) = Len(params.actions)
    /\ (pc = "done" /\ result \notin {"Ok", "Unauthorized",
                                      "ManageRateLimitOverrideParamsLengthMismatch"})
        => Len(events) < Len(params.actions)

\* a successful batch of an Add and a Remove emitted both events in order
C14_Witness ==
    /\ pc = "done"
    /\ result = "Ok"
    /\ params.actions = <<"Add", "Remove">>
    /\ Len(events) = 2
    /\ events[1].action = "Add"
    /\ events[2].action = "Remove"

\* C19: frame.  No step changes the admin, the two capacities or ld2sd_rate,
\* in the account or in memory; an address request leaves the guid list alone
\* and a guid request leaves the address list alone.
C19_Frame ==
    [][/\ oft_store'.admin = oft_store.admin
       /\ oft_store'.ld2sd_rate = oft_store.ld2sd_rate
       /\ oft_store'.max_rate_limit_overrides = oft_store.max_rate_limit_overrides
       /\ oft_store'.max_rate_limit_override_guid_count
            = oft_store.max_rate_limit_override_guid_count
       /\ ctx_store'.admin = oft_store.admin
       /\ ctx_store'.ld2sd_rate = oft_store.ld2sd_rate
       /\ ctx_store'.max_rate_limit_overrides = oft_store.max_rate_limit_overrides
       /\ ctx_store'.max_rate_limit_override_guid_count
            = oft_store.max_rate_limit_override_guid_count
       /\ params'.target = "address"
            => /\ oft_store'.rate_limit_override_guids = oft_store.rate_limit_override_guids
               /\ ctx_store'.rate_limit_override_guids = oft_store.rate_limit_override_guids
       /\ params'.target = "guid"
            => /\ oft_store'.rate_limit_override = oft_store.rate_limit_override
               /\ ctx_store'.rate_limit_override = oft_store.rate_limit_override]_vars

\* a successful guid request changed the guid list next to a non-empty
\* address list
C19_Witness ==
    /\ pc = "done"
    /\ result = "Ok"
    /\ params.target = "guid"
    /\ idx > 0
    /\ Len(oft_store.rate_limit_override) > 0
    /\ Len(oft_store.rate_limit_override_guids) > 0

\* what the request would do to the account's store: the whole batch, and
\* the pairs the loop has processed so far
WholeBatch == apply_batch(oft_store, params.target, params.actions, params.keys)

Prefix(n) ==
    apply_batch(oft_store, params.target, SubSeq(params.actions, 1, n),
                SubSeq(params.keys, 1, n))

\* a membership query, on either list, answers differently in the two stores
ReadsDiffer(a, b) ==
    \/ \E k \in Pubkeys : is_rate_limit_override(a, k) # is_rate_limit_override(b, k)
    \/ \E g \in Guids : is_rate_limit_override_guid(a, g) # is_rate_limit_override_guid(b, g)

\* C15: consistent reads.  A membership query reads the account.  Its answer
\* changes only at the step that ends a successful batch, and then to the
\* answer for the set with the whole batch applied; no step of a running or a
\* failing batch changes it.
C15_ConsistentReads ==
    [][ReadsDiffer(oft_store', oft_store)
        => /\ pc = "loop"
           /\ pc' = "done"
           /\ result' = "Ok"
           /\ idx = Len(params.actions)
           /\ WholeBatch.err = "Ok"
           /\ oft_store' = WholeBatch.store]_vars

\* in the middle of a batch the in-memory set answers a query differently
\* from the account
C15_Witness ==
    /\ pc = "loop"
    /\ idx > 0
    /\ idx < Len(params.actions)
    /\ ReadsDiffer(ctx_store, oft_store)

Perms(n) == {f \in [1..n -> 1..n] : \A i, j \in 1..n : f[i] = f[j] => i = j}

Permute(seq, f) == [i \in 1..Len(seq) |-> seq[f[i]]]

Reordered(f) ==
    apply_batch(oft_store, params.target, Permute(params.actions, f),
                Permute(params.keys, f))

\* C16: order independence.  When every step of a batch has succeeded, every
\* reordering of its pairs whose steps all succeed from the same initial set
\* ends with the same members.
C16_OrderIndependent ==
    (pc = "loop" /\ idx = Len(params.actions))
        => \A f \in Perms(Len(params.actions)) :
            Reordered(f).err = "Ok"
                => Members(TargetList(Reordered(f).store)) = Members(TargetList(ctx_store))

\* both orders of a two-pair batch succeed and leave the keys at different
\* positions
C16_Witness ==
    /\ pc = "loop"
    /\ idx = 2
    /\ Len(params.actions) = 2
    /\ \E f \in Perms(2) :
        /\ f[1] = 2
        /\ Reordered(f).err = "Ok"
        /\ TargetList(Reordered(f).store) # TargetList(ctx_store)

InLoopError ==
    result \notin {"none", "Ok", "Unauthorized",
                   "ManageRateLimitOverrideParamsLengthMismatch"}

\* C17: sequential application and first-failure attribution.  The in-memory
\* set is the account's set with the processed pairs applied in order; a
\* failed batch returns the error of the first failing pair, applied exactly
\* the pairs before it and emitted exactly their events.  [Add K, Remove K]
\* does not fail at the Remove, and [Add K, Add K] does not succeed.
C17_Sequential ==
    /\ pc = "loop" => (Prefix(idx).err = "Ok" /\ Prefix(idx).store = ctx_store)
    /\ (pc = "done" /\ InLoopError)
        => /\ idx < Len(params.actions)
           /\ Prefix(idx).err = "Ok"
           /\ Prefix(idx + 1).err = result
           /\ WholeBatch.err = result
           /\ WholeBatch.applied = idx
           /\ WholeBatch.store = ctx_store
           /\ WholeBatch.emitted = events
           /\ Len(events) = idx
    /\ (pc = "done" /\ idx > 0 /\ Len(params.keys) = 2 /\ params.keys[1] = params.keys[2])
        => /\ params.actions = <<"Add", "Remove">> => (result = "Ok" /\ idx = 2)
           /\ params.actions = <<"Add", "Add">> => (InLoopError /\ idx = 1)

\* [Remove K, Remove K]: the second Remove was evaluated against the set
\* without K and failed, after one event
C17_Witness ==
    /\ pc = "done"
    /\ result = "NotInOverrideList"
    /\ params.actions = <<"Remove", "Remove">>
    /\ params.keys[1] = params.keys[2]
    /\ idx = 1
    /\ Len(events) = 1

\* C18: recovery from ListFull.  On a full set every Add fails with
\* RateLimitOverrideListFull and the set stays full; a full set stops being
\* full only by a successful Remove; and right after a successful Remove on a
\* full set an Add of a key that is not a member succeeds.
C18_Recovery ==
    [][/\ (AtStep("Add") /\ Len(TargetList(ctx_store)) = TargetCap(ctx_store))
            => /\ pc' = "done"
               /\ result' = "RateLimitOverrideListFull"
               /\ Len(TargetList(ctx_store)') = TargetCap(ctx_store)
       /\ (pc = "loop" /\ pc' \in {"loop", "done"}
           /\ Len(TargetList(ctx_store)) = TargetCap(ctx_store)
           /\ Len(TargetList(ctx_store)') < TargetCap(ctx_store))
            => /\ AtStep("Remove")
               /\ Contains(TargetList(ctx_store), CurKey)
               /\ pc' = "loop"
       /\ (AtStep("Add") /\ idx = 1 /\ params.actions[1] = "Remove"
           /\ Len(TargetList(oft_store)) = TargetCap(oft_store)
           /\ ~Contains(TargetList(ctx_store), CurKey))
            => /\ pc' = "loop"
               /\ idx' = 2
               /\ Contains(TargetList(ctx_store)', CurKey)
               /\ Len(TargetList(ctx_store)') = TargetCap(ctx_store)]_vars

\* a key was removed from a full set and a key that was not a member was
\* added in its place
C18_Witness ==
    /\ pc = "loop"
    /\ idx = 2
    /\ params.actions = <<"Remove", "Add">>
    /\ params.keys[1] # params.keys[2]
    /\ Len(TargetList(oft_store)) = TargetCap(oft_store)
    /\ ~Contains(TargetList(oft_store), params.keys[2])
    /\ Contains(TargetList(ctx_store), params.keys[2])

====
